---- MODULE Spec2Model ----
(***************************************************************************)
(* Model of scripts/extract_enchantments.py: the tag resolvers, the        *)
(* librarian-trade lookup, the translation resolver, the per-enchantment   *)
(* aggregator and the main loop.                                           *)
(*                                                                         *)
(* Python strings are sequences of tokens (<<"#", "minecraft", ":", "a">>  *)
(* is '#minecraft:a'), so that prefix tests, the split at the first ':'    *)
(* and the f-string that rebuilds a reference are computed, not assumed.   *)
(* JSON objects are functions from field names to values; the empty        *)
(* object is the function with the empty domain.  A value of a tag         *)
(* document's "values" list is wrapped with its Python type:               *)
(* [type |-> "str", v |-> s] or [type |-> "dict", v |-> d].                *)
(* The archive (jar) is a function from entry paths to raw entries,        *)
(* [parse |-> "error"] for bytes that are not JSON and                     *)
(* [parse |-> "ok", json |-> d] otherwise; a path outside its domain is a  *)
(* missing entry.                                                          *)
(*                                                                         *)
(* Every JSON document of the archive is an object, a structured value's   *)
(* id and a descriptor's translate key are strings.  A resolver call that  *)
(* nests deeper than RecursionLimit raises RecursionError, which no        *)
(* function of the script catches.                                         *)
(***************************************************************************)
EXTENDS Integers, Sequences, FiniteSets, TLC

VARIABLES
    jar,                   \* the archive: entry path -> raw entry
    pc,                    \* position of the run
    tag,                   \* argument of the top-level resolver call
    resolved_items,        \* outcome of resolve_item_tag(jar, tag)
    resolved_enchantments, \* outcome of resolve_enchantment_tag(jar, tag)
    trade_arg,             \* enchantment id given to get_librarian_trades
    trade_result,          \* outcome of get_librarian_trades(jar, trade_arg)
    translation_arg,       \* descriptor given to resolve_translation
    description,           \* outcome of resolve_translation(translation_arg, lang_data)
    namelist,              \* jar.namelist(): the entry paths in archive order
    lang_data,             \* main: the language table
    enchantments,          \* main: the sorted enchantment names
    next_index,            \* main: position of the loop over enchantments
    enchantments_list,     \* main: what the loop has appended
    output                 \* main: the list dumped to the output file

resolveVars == <<tag, resolved_items, resolved_enchantments>>
tradeVars == <<trade_arg, trade_result>>
translateVars == <<translation_arg, description>>
mainVars == <<namelist, enchantments, next_index, enchantments_list, output>>
vars == <<jar, pc, lang_data, resolveVars, tradeVars, translateVars, mainVars>>

(***************************************************************************)
(* Bounds of the model.                                                    *)
(***************************************************************************)
\* Nested resolver frames the interpreter allows before RecursionError.
RecursionLimit == 6
\* Total number of values in the tag documents of one archive.
MaxEntries == 3
\* Number of biome trade tag documents one archive holds.
MaxTradeDocs == 2

(***************************************************************************)
(* Strings and JSON values.                                                *)
(***************************************************************************)
EmptyDict == [k \in {} |-> k]

Get(d, k, default) == IF k \in DOMAIN d THEN d[k] ELSE default

StrV(s) == [type |-> "str", v |-> s]
DictV(d) == [type |-> "dict", v |-> d]

\* A qualified id (one with a ':') taken for a reference as well.
startswith_hash_or_qualified(s) == Len(s) > 0 /\ (s[1] = "#" \/ \E i \in 1..Len(s) : s[i] = ":")

\* tag.startswith('#')
startswith_hash(s) == Len(s) > 0 /\ s[1] = "#"

has_colon(s) == \E i \in 1..Len(s) : s[i] = ":"

first_colon(s) == CHOOSE i \in 1..Len(s) : s[i] = ":" /\ \A j \in 1..(i - 1) : s[j] # ":"

\* namespace, path = tag.split(':', 1), or the default namespace
tag_namespace(t) == IF has_colon(t) THEN SubSeq(t, 1, first_colon(t) - 1) ELSE <<"minecraft">>

tag_path_part(t) == IF has_colon(t) THEN SubSeq(t, first_colon(t) + 1, Len(t)) ELSE t

item_tag_path(namespace, path) == <<"data/">> \o namespace \o <<"/tags/item/">> \o path \o <<".json">>

enchantment_tag_path(namespace, path) == <<"data/">> \o namespace \o <<"/tags/enchantment/">> \o path \o <<".json">>

\* The sentinel with the namespace always written out.
unresolved_qualified(t) == <<"#">> \o tag_namespace(t) \o <<":">> \o tag_path_part(t)

\* f"#{tag}": the reference rebuilt from the stripped tag
unresolved(t) == <<"#">> \o t

extract_json_from_jar(j, file_path) ==
    IF file_path \notin DOMAIN j THEN EmptyDict           \* KeyError
    ELSE IF j[file_path].parse = "error" THEN EmptyDict   \* JSONDecodeError
    ELSE j[file_path].json

(***************************************************************************)
(* Outcome of a call: the returned list, or RecursionError raised because  *)
(* the nesting of resolver frames passed the interpreter's limit.          *)
(***************************************************************************)
NotCalled == [status |-> "none", value |-> <<>>]
Returned(v) == [status |-> "returned", value |-> v]
RecursionError == [status |-> "raised", value |-> <<>>]

\* The nested resolution put in front of what was collected so far.
extend_in_front(l, more) == more \o l

\* items.extend(more)
extend(l, more) == l \o more

(***************************************************************************)
(* resolve_item_tag.  depth counts the resolver frames on the stack.       *)
(***************************************************************************)
RECURSIVE resolve_item_tag(_, _, _)
RECURSIVE item_values(_, _, _, _)

item_values(j, values, acc, depth) ==
    IF values = <<>> THEN Returned(acc)
    ELSE LET value == Head(values)
             ref == IF value.type = "str" THEN value.v
                    ELSE IF value.type = "dict" THEN Get(value.v, "id", <<>>)
                    ELSE <<>>
         IN  IF value.type \notin {"str", "dict"}
             THEN item_values(j, Tail(values), acc, depth)
             ELSE IF startswith_hash(ref)
             THEN LET r == resolve_item_tag(j, ref, depth + 1)
                  IN  IF r.status = "raised" THEN RecursionError
                      ELSE item_values(j, Tail(values), extend(acc, r.value), depth)
             ELSE item_values(j, Tail(values), Append(acc, ref), depth)

resolve_item_tag(j, t, depth) ==
    IF depth > RecursionLimit THEN RecursionError
    ELSE IF ~startswith_hash(t) THEN Returned(<<t>>)
    ELSE LET stripped == Tail(t)
             tag_path == item_tag_path(tag_namespace(stripped), tag_path_part(stripped))
             tag_data == extract_json_from_jar(j, tag_path)
         IN  IF DOMAIN tag_data = {} THEN Returned(<<unresolved(stripped)>>)
             ELSE item_values(j, Get(tag_data, "values", <<>>), <<>>, depth)

(***************************************************************************)
(* resolve_enchantment_tag: only str values are looked at.                 *)
(***************************************************************************)
RECURSIVE resolve_enchantment_tag(_, _, _)
RECURSIVE enchantment_values(_, _, _, _)

enchantment_values(j, values, acc, depth) ==
    IF values = <<>> THEN Returned(acc)
    ELSE LET value == Head(values)
         IN  IF value.type # "str"
             THEN enchantment_values(j, Tail(values), acc, depth)
             ELSE IF startswith_hash(value.v)
             THEN LET r == resolve_enchantment_tag(j, value.v, depth + 1)
                  IN  IF r.status = "raised" THEN RecursionError
                      ELSE enchantment_values(j, Tail(values), extend(acc, r.value), depth)
             ELSE enchantment_values(j, Tail(values), Append(acc, value.v), depth)

resolve_enchantment_tag(j, t, depth) ==
    IF depth > RecursionLimit THEN RecursionError
    ELSE IF ~startswith_hash(t) THEN Returned(<<t>>)
    ELSE LET stripped == Tail(t)
             tag_path == enchantment_tag_path(tag_namespace(stripped), tag_path_part(stripped))
             tag_data == extract_json_from_jar(j, tag_path)
         IN  IF DOMAIN tag_data = {} THEN Returned(<<unresolved(stripped)>>)
             ELSE enchantment_values(j, Get(tag_data, "values", <<>>), <<>>, depth)

(***************************************************************************)
(* check_enchantment_in_tag: membership of minecraft:{id} in the tag       *)
(* document at tag_path, nested tags resolved in the enchantment domain.   *)
(* The loop returns at the first match.                                    *)
(***************************************************************************)
Range(l) == { l[i] : i \in 1..Len(l) }

target_of(enchantment_id) == <<"minecraft", ":">> \o enchantment_id

RECURSIVE check_values(_, _, _)
check_values(j, values, target) ==
    IF values = <<>> THEN Returned(FALSE)
    ELSE LET value == Head(values)
         IN  IF value.type # "str" THEN check_values(j, Tail(values), target)
             ELSE IF startswith_hash(value.v)
             THEN LET resolved == resolve_enchantment_tag(j, value.v, 1)
                  IN  IF resolved.status = "raised" THEN RecursionError
                      ELSE IF target \in Range(resolved.value) THEN Returned(TRUE)
                      ELSE check_values(j, Tail(values), target)
             ELSE IF value.v = target THEN Returned(TRUE)
             ELSE check_values(j, Tail(values), target)

\* Only the literal values compared, nested tags not resolved.
check_enchantment_in_tag_direct(j, enchantment_id, tag_path) ==
    LET values == Get(extract_json_from_jar(j, tag_path), "values", <<>>)
    IN  Returned(\E i \in 1..Len(values) :
                     values[i].type = "str" /\ values[i].v = target_of(enchantment_id))

check_enchantment_in_tag(j, enchantment_id, tag_path) ==
    LET tag_data == extract_json_from_jar(j, tag_path)
    IN  IF DOMAIN tag_data = {} THEN Returned(FALSE)
        ELSE check_values(j, Get(tag_data, "values", <<>>), target_of(enchantment_id))

(***************************************************************************)
(* get_librarian_trades.                                                   *)
(***************************************************************************)
biomes == <<"desert", "jungle", "plains", "savanna", "snow", "swamp", "taiga">>
trade_types == <<"common", "special">>

trade_tag_path(biome, trade_type) ==
    <<"data/", "minecraft", "/datapacks/trade_rebalance/data/", "minecraft",
      "/tags/enchantment/", "trades/", biome, "_", trade_type, ".json">>

tradeable_path == <<"data/", "minecraft", "/tags/enchantment/", "tradeable", ".json">>

\* The k-th pair of the nested loops: biome-major, trade_type-minor.
loop_biome(k) == biomes[((k - 1) \div Len(trade_types)) + 1]
loop_trade_type(k) == trade_types[((k - 1) % Len(trade_types)) + 1]

\* The body of the inner loop when the tag matched.
record_biome_trade(trade_info, biome, trade_type) ==
    [ available_from_librarian |-> TRUE,
      biome_trades |-> Append(trade_info.biome_trades, [biome |-> biome, rarity |-> trade_type]) ]

\* The nested loops from pair k on.
RECURSIVE biome_loop(_, _, _, _)
biome_loop(j, enchantment_id, k, trade_info) ==
    IF k > Len(biomes) * Len(trade_types) THEN Returned(trade_info)
    ELSE LET found == check_enchantment_in_tag(j, enchantment_id,
                          trade_tag_path(loop_biome(k), loop_trade_type(k)))
         IN  IF found.status = "raised" THEN RecursionError
             ELSE IF found.value
             THEN biome_loop(j, enchantment_id, k + 1,
                      record_biome_trade(trade_info, loop_biome(k), loop_trade_type(k)))
             ELSE biome_loop(j, enchantment_id, k + 1, trade_info)

\* The general pair added although a biome pair is recorded.
general_trade_always(trade_info, in_tradeable) ==
    IF in_tradeable
    THEN [ available_from_librarian |-> TRUE,
           biome_trades |-> Append(trade_info.biome_trades, [biome |-> "any", rarity |-> "general"]) ]
    ELSE trade_info

\* The flag set from the tradeable tag with no pair recorded.
general_trade_flag_only(trade_info, in_tradeable) ==
    IF in_tradeable
    THEN [ available_from_librarian |-> TRUE, biome_trades |-> trade_info.biome_trades ]
    ELSE trade_info

\* The check of the general tradeable tag, after the loops.
general_trade(trade_info, in_tradeable) ==
    IF in_tradeable /\ ~trade_info.available_from_librarian
    THEN [ available_from_librarian |-> TRUE,
           biome_trades |-> Append(trade_info.biome_trades, [biome |-> "any", rarity |-> "general"]) ]
    ELSE trade_info

get_librarian_trades(j, enchantment_id) ==
    LET looped == biome_loop(j, enchantment_id, 1,
                      [available_from_librarian |-> FALSE, biome_trades |-> <<>>])
    IN  IF looped.status = "raised" THEN RecursionError
        ELSE LET found == check_enchantment_in_tag(j, enchantment_id, tradeable_path)
             IN  IF found.status = "raised" THEN RecursionError
                 ELSE Returned(general_trade(looped.value, found.value))

(***************************************************************************)
(* load_language_file, resolve_translation.                                *)
(***************************************************************************)
lang_path == <<"assets/", "minecraft", "/lang/", "en_us", ".json">>

load_language_file(j) == extract_json_from_jar(j, lang_path)

digits == <<"0", "1", "2", "3", "4", "5", "6", "7", "8", "9">>

\* str(n) of a non-negative int
RECURSIVE int_str(_)
int_str(n) == IF n < 10 THEN <<digits[n + 1]>> ELSE int_str(n \div 10) \o <<digits[(n % 10) + 1]>>

IntV(n) == [type |-> "int", v |-> n]

\* The table looked up whatever the key.
resolve_translation_no_table(translation_data, table) ==
    IF translation_data.type = "str" THEN translation_data.v
    ELSE IF translation_data.type = "dict" THEN Get(translation_data.v, "translate", <<>>)
    ELSE int_str(translation_data.v)

resolve_translation(translation_data, table) ==
    IF translation_data.type = "str" THEN translation_data.v
    ELSE IF translation_data.type = "dict"
    THEN LET translate_key == Get(translation_data.v, "translate", <<>>)
         IN  IF translate_key # <<>> /\ translate_key \in DOMAIN table
             THEN table[translate_key]
             ELSE translate_key
    ELSE int_str(translation_data.v)

(***************************************************************************)
(* extract_enchantment_data.                                               *)
(***************************************************************************)
enchantment_root == <<"data/", "minecraft", "/enchantment/">>

enchantment_path(enchantment_name) == enchantment_root \o enchantment_name \o <<".json">>

\* [trade['biome'] for trade in biome_trades]
biome_names(biome_trades) == [i \in 1..Len(biome_trades) |-> biome_trades[i].biome]

\* [...] if trade_info['available_from_librarian'] else []
librarian_biomes_of(trade_info) ==
    IF trade_info.available_from_librarian THEN biome_names(trade_info.biome_trades) ELSE <<>>

extract_enchantment_data(j, enchantment_name, table) ==
    LET data == extract_json_from_jar(j, enchantment_path(enchantment_name))
    IN  IF DOMAIN data = {} THEN Returned(EmptyDict)
        ELSE LET trade_info == get_librarian_trades(j, enchantment_name)
                 supported_items == Get(data, "supported_items", <<>>)
                 items_list == IF supported_items # <<>>
                               THEN resolve_item_tag(j, supported_items, 1)
                               ELSE Returned(<<>>)
             IN  IF trade_info.status = "raised" \/ items_list.status = "raised"
                 THEN RecursionError
                 ELSE Returned(
                        [ name |-> enchantment_name,
                          description |-> resolve_translation(
                                              Get(data, "description", DictV(EmptyDict)), table),
                          max_level |-> Get(data, "max_level", 1),
                          min_cost |-> Get(Get(data, "min_cost", EmptyDict), "base", 0),
                          max_cost |-> Get(Get(data, "max_cost", EmptyDict), "base", 0),
                          rarity_weight |-> Get(data, "weight", 0),
                          applies_to |-> items_list.value,
                          librarian_biomes |-> librarian_biomes_of(trade_info.value),
                          tradeable |-> trade_info.value.available_from_librarian ])

(***************************************************************************)
(* get_all_enchantments: the names of the archive's enchantment files,     *)
(* sorted.  A token ending in '/' closes a path segment.                   *)
(***************************************************************************)
SlashTokens ==
    { "data/", "assets/", "/", "/enchantment/", "/tags/item/", "/tags/enchantment/",
      "/lang/", "/datapacks/trade_rebalance/data/", "trades/" }

\* name.startswith('data/minecraft/enchantment/') and name.endswith('.json')
is_enchantment_file(name) ==
    /\ Len(name) > Len(enchantment_root)
    /\ SubSeq(name, 1, Len(enchantment_root)) = enchantment_root
    /\ name[Len(name)] = ".json"

\* name.split('/')[-1]
last_segment(name) ==
    LET slashes == { i \in 1..Len(name) : name[i] \in SlashTokens }
        last == IF slashes = {} THEN 0 ELSE CHOOSE i \in slashes : \A k \in slashes : k <= i
    IN  SubSeq(name, last + 1, Len(name))

IsNotJsonSuffix(token) == token # ".json"

\* .replace('.json', '')
enchant_name_of(name) == SelectSeq(last_segment(name), IsNotJsonSuffix)

\* Order of the characters the names are written with.
CharRank == [c \in {"a", "b"} |-> IF c = "a" THEN 1 ELSE 2]

\* s <= t in the lexicographic order of Python strings
RECURSIVE str_le(_, _)
str_le(s, t) ==
    IF s = <<>> THEN TRUE
    ELSE IF t = <<>> THEN FALSE
    ELSE IF Head(s) = Head(t) THEN str_le(Tail(s), Tail(t))
    ELSE CharRank[Head(s)] < CharRank[Head(t)]

RECURSIVE insert_sorted(_, _)
insert_sorted(x, l) ==
    IF l = <<>> THEN <<x>>
    ELSE IF str_le(x, Head(l)) THEN <<x>> \o l
    ELSE <<Head(l)>> \o insert_sorted(x, Tail(l))

RECURSIVE sorted(_)
sorted(l) == IF l = <<>> THEN <<>> ELSE insert_sorted(Head(l), sorted(Tail(l)))

RECURSIVE enchantment_files(_)
enchantment_files(names) ==
    IF names = <<>> THEN <<>>
    ELSE IF is_enchantment_file(Head(names))
         THEN <<enchant_name_of(Head(names))>> \o enchantment_files(Tail(names))
         ELSE enchantment_files(Tail(names))

get_all_enchantments(names) == sorted(enchantment_files(names))

(***************************************************************************)
(* Archives for the resolver runs: tag documents a and b of namespace      *)
(* minecraft under the item root, and the same documents under the        *)
(* enchantment root (mirrored), or tag a under the item root alone.        *)
(***************************************************************************)
LitX == <<"minecraft", ":", "x">>
LitY == <<"minecraft", ":", "y">>
RefA == <<"#", "minecraft", ":", "a">>     \* '#minecraft:a'
RefAShort == <<"#", "a">>                  \* '#a'
RefB == <<"#", "b">>                       \* '#b'
ConcreteA == <<"minecraft", ":", "a">>     \* 'minecraft:a', not a reference

TagValues ==
    { StrV(LitX), StrV(LitY), StrV(RefB), StrV(RefA),
      DictV([id |-> LitX]), DictV([id |-> RefB]) }

SeqsUpTo(S, n) == UNION { [1..k -> S] : k \in 0..n }

\* What an archive holds at one tag path: nothing, bytes that are not JSON,
\* the empty object, an object without "values", or a tag document.
DocChoices == { [kind |-> "doc", values |-> vs] : vs \in SeqsUpTo(TagValues, MaxEntries) }

EntryChoicesA ==
    { [kind |-> "absent", values |-> <<>>],
      [kind |-> "malformed", values |-> <<>>],
      [kind |-> "empty", values |-> <<>>],
      [kind |-> "novalues", values |-> <<>>] } \cup DocChoices

EntryChoicesB ==
    { [kind |-> "absent", values |-> <<>>],
      [kind |-> "malformed", values |-> <<>>] } \cup DocChoices

RawEntry(c) ==
    IF c.kind = "malformed" THEN [parse |-> "error"]
    ELSE IF c.kind = "empty" THEN [parse |-> "ok", json |-> EmptyDict]
    ELSE IF c.kind = "novalues" THEN [parse |-> "ok", json |-> [replace |-> FALSE]]
    ELSE [parse |-> "ok", json |-> [values |-> c.values]]

\* The archive holding exactly the entries of a set of <<path, choice>> pairs.
JarOf(pairs) ==
    LET present == { e \in pairs : e[2].kind # "absent" }
    IN  [ p \in { e[1] : e \in present } |-> RawEntry((CHOOSE e \in present : e[1] = p)[2]) ]

ItemPathA == item_tag_path(<<"minecraft">>, <<"a">>)
ItemPathB == item_tag_path(<<"minecraft">>, <<"b">>)
EnchPathA == enchantment_tag_path(<<"minecraft">>, <<"a">>)
EnchPathB == enchantment_tag_path(<<"minecraft">>, <<"b">>)

TopRefs == { RefAShort, RefA, ConcreteA }

(***************************************************************************)
(* SpecResolve: one archive, one reference, each resolver called on it.    *)
(***************************************************************************)
NotWritten == [written |-> FALSE, records |-> <<>>]

IdleResolve == tag = <<>> /\ resolved_items = NotCalled /\ resolved_enchantments = NotCalled
IdleTrades == trade_arg = <<>> /\ trade_result = NotCalled
IdleTranslate == translation_arg = StrV(<<>>) /\ description = NotCalled
IdleMain ==
    /\ namelist = <<>>
    /\ enchantments = <<>>
    /\ next_index = 1
    /\ enchantments_list = <<>>
    /\ output = NotWritten

InitResolve ==
    /\ \E ca \in EntryChoicesA, cb \in EntryChoicesB, mirror \in BOOLEAN :
          /\ Len(ca.values) + Len(cb.values) <= MaxEntries
          /\ mirror \/ cb.kind = "absent"
          /\ jar = JarOf({ <<ItemPathA, ca>>, <<ItemPathB, cb>> }
                         \cup (IF mirror THEN { <<EnchPathA, ca>>, <<EnchPathB, cb>> } ELSE {}))
    /\ tag \in TopRefs
    /\ pc = "resolve"
    /\ resolved_items = NotCalled
    /\ resolved_enchantments = NotCalled
    /\ lang_data = EmptyDict
    /\ IdleTrades /\ IdleTranslate /\ IdleMain

ResolveItem ==
    /\ pc = "resolve"
    /\ resolved_items.status = "none"
    /\ resolved_items' = resolve_item_tag(jar, tag, 1)
    /\ UNCHANGED <<jar, pc, lang_data, tag, resolved_enchantments, tradeVars, translateVars, mainVars>>

ResolveEnchantment ==
    /\ pc = "resolve"
    /\ resolved_enchantments.status = "none"
    /\ resolved_enchantments' = resolve_enchantment_tag(jar, tag, 1)
    /\ UNCHANGED <<jar, pc, lang_data, tag, resolved_items, tradeVars, translateVars, mainVars>>

NextResolve == ResolveItem \/ ResolveEnchantment

SpecResolve == InitResolve /\ [][NextResolve]_vars

(***************************************************************************)
(* SpecTrades: archives with biome trade tags, the tradeable tag and       *)
(* enchantment tags a and b; get_librarian_trades called on an id.         *)
(***************************************************************************)
IdP == <<"p">>
IdQ == <<"q">>
LitP == target_of(IdP)       \* 'minecraft:p'
LitQ == target_of(IdQ)       \* 'minecraft:q'

Doc(values) == [kind |-> "doc", values |-> values]
Absent == [kind |-> "absent", values |-> <<>>]
Malformed == [kind |-> "malformed", values |-> <<>>]

BiomeDocChoices ==
    { Malformed, Doc(<<StrV(LitP)>>), Doc(<<DictV([id |-> LitP]), StrV(RefAShort)>>) }

TradeableChoices ==
    { Absent, Doc(<<StrV(RefAShort)>>), Doc(<<StrV(LitP), StrV(RefAShort)>>) }

\* Enchantment tags a and b of the archive.
TradeTagConfigs ==
    { {},
      { <<EnchPathA, Doc(<<StrV(LitQ), StrV(LitP)>>)>> },
      { <<EnchPathA, Doc(<<StrV(RefB)>>)>>, <<EnchPathB, Doc(<<StrV(LitP)>>)>> },
      { <<EnchPathA, Doc(<<StrV(RefB)>>)>> },
      { <<EnchPathA, Doc(<<StrV(RefA)>>)>> },
      { <<EnchPathA, Doc(<<DictV([id |-> LitP])>>)>> } }

LoopIndexes == 1..(Len(biomes) * Len(trade_types))

InitTrades ==
    /\ \E K \in SUBSET LoopIndexes :
          /\ Cardinality(K) <= MaxTradeDocs
          /\ \E f \in [K -> BiomeDocChoices], t \in TradeableChoices, c \in TradeTagConfigs :
                jar = JarOf({ <<trade_tag_path(loop_biome(k), loop_trade_type(k)), f[k]>> : k \in K }
                            \cup { <<tradeable_path, t>> } \cup c)
    /\ trade_arg \in { IdP, IdQ }
    /\ trade_result = NotCalled
    /\ pc = "trades"
    /\ lang_data = EmptyDict
    /\ IdleResolve /\ IdleTranslate /\ IdleMain

GetLibrarianTrades ==
    /\ pc = "trades"
    /\ trade_result.status = "none"
    /\ trade_result' = get_librarian_trades(jar, trade_arg)
    /\ UNCHANGED <<jar, pc, lang_data, trade_arg, resolveVars, translateVars, mainVars>>

NextTrades == GetLibrarianTrades

SpecTrades == InitTrades /\ [][NextTrades]_vars

(***************************************************************************)
(* SpecTranslate: resolve_translation on a descriptor and a table.         *)
(***************************************************************************)
KeyEmpty == <<>>                                         \* ''
KeyDesc == <<"enchantment.minecraft.sharpness.desc">>
KeyOther == <<"enchantment.minecraft.mending.desc">>
TextDamage == <<"Increases damage">>
TextSharpness == <<"Sharpness">>

TranslationKeys == { KeyEmpty, KeyDesc, KeyOther }

Descriptors ==
    { StrV(s) : s \in { <<>>, TextSharpness, KeyDesc } }
    \cup { DictV([translate |-> k]) : k \in TranslationKeys }
    \cup { DictV(EmptyDict), DictV([text |-> TextSharpness]) }
    \cup { IntV(n) : n \in { 0, 7, 42 } }

LanguageTables ==
    UNION { [D -> { TextDamage, TextSharpness }] : D \in SUBSET TranslationKeys }

InitTranslate ==
    /\ translation_arg \in Descriptors
    /\ lang_data \in LanguageTables
    /\ description = NotCalled
    /\ pc = "translate"
    /\ jar = EmptyDict
    /\ IdleResolve /\ IdleTrades /\ IdleMain

ResolveTranslation ==
    /\ pc = "translate"
    /\ description.status = "none"
    /\ description' = Returned(resolve_translation(translation_arg, lang_data))
    /\ UNCHANGED <<jar, pc, lang_data, translation_arg, resolveVars, tradeVars, mainVars>>

NextTranslate == ResolveTranslation

SpecTranslate == InitTranslate /\ [][NextTranslate]_vars

(***************************************************************************)
(* Spec: main.  The archive holds enchantment files (some in a             *)
(* subdirectory of the enchantment root), trade tags, an item tag and the  *)
(* language file; namelist is one order of its entries.                    *)
(***************************************************************************)
NameA == <<"a">>
NameAB == <<"a", "b">>
NameB == <<"b">>

\* data/minecraft/enchantment/sub/a.json
NestedPathA == enchantment_root \o <<"sub", "/", "a", ".json">>

RefS == <<"#", "minecraft", ":", "s">>
ItemPathS == item_tag_path(<<"minecraft">>, <<"s">>)
EnchPathT == enchantment_tag_path(<<"minecraft">>, <<"t">>)
RefT == <<"#", "t">>
LitA == target_of(NameA)
LitB == target_of(NameB)

DefFull ==
    [ description |-> DictV([translate |-> KeyDesc]),
      max_level |-> 5,
      min_cost |-> [base |-> 1, per_level_above_first |-> 11],
      max_cost |-> [base |-> 21, per_level_above_first |-> 11],
      weight |-> 10,
      supported_items |-> RefS ]

DefBare == [ weight |-> 2 ]

Parsed(d) == [parse |-> "ok", json |-> d]
BadJson == [parse |-> "error"]
NoEntry == [parse |-> "absent"]

\* What the archive holds at an enchantment file: nothing ("absent") or a raw entry.
FileChoicesA == { NoEntry, BadJson, Parsed(EmptyDict), Parsed(DefFull), Parsed(DefBare) }
FileChoicesAB == { NoEntry, Parsed(DefBare) }
FileChoicesB == { NoEntry, BadJson, Parsed(DefFull) }

\* The other entries of the archive, in archive order.
TradeEntryChoices ==
    { <<>>,
      << <<trade_tag_path("desert", "special"), Parsed([values |-> <<StrV(LitA)>>])>>,
         <<trade_tag_path("taiga", "common"), Parsed([values |-> <<StrV(LitB), StrV(LitA)>>])>> >>,
      << <<tradeable_path, Parsed([values |-> <<StrV(LitA)>>])>> >>,
      << <<trade_tag_path("desert", "special"), Parsed([values |-> <<StrV(LitA)>>])>>,
         <<tradeable_path, Parsed([values |-> <<StrV(LitA), StrV(LitB)>>])>> >>,
      << <<trade_tag_path("plains", "common"), Parsed([values |-> <<StrV(RefT)>>])>>,
         <<EnchPathT, Parsed([values |-> <<StrV(RefT)>>])>> >> }

LangEntryChoices ==
    { <<>>, << <<lang_path, Parsed(KeyDesc :> TextDamage)>> >> }

ItemTagEntryChoices ==
    { <<>>, << <<ItemPathS, Parsed([values |-> <<StrV(LitX), StrV(LitY)>>])>> >> }

\* The orders of a set of entries.
Orders(S) ==
    { f \in [1..Cardinality(S) -> S] : \A i, k \in 1..Cardinality(S) : f[i] = f[k] => i = k }

Paths(entries) == [i \in 1..Len(entries) |-> entries[i][1]]

Init ==
    /\ \E fa \in FileChoicesA, fab \in FileChoicesAB, fb \in FileChoicesB, nested \in BOOLEAN,
          trades \in TradeEntryChoices, lang \in LangEntryChoices, itemtag \in ItemTagEntryChoices,
          others_first \in BOOLEAN :
          LET files == { e \in { <<enchantment_path(NameA), fa>>, <<enchantment_path(NameAB), fab>>,
                                 <<enchantment_path(NameB), fb>>,
                                 <<NestedPathA, IF nested THEN Parsed(DefBare) ELSE NoEntry>> } :
                             e[2].parse # "absent" }
              others == trades \o lang \o itemtag
              entries == files \cup Range(others)
          IN  /\ jar = [ q \in { e[1] : e \in entries } |-> (CHOOSE e \in entries : e[1] = q)[2] ]
              /\ \E order \in Orders(files) :
                    namelist = IF others_first THEN Paths(others) \o Paths(order)
                               ELSE Paths(order) \o Paths(others)
    /\ pc = "load_language"
    /\ lang_data = EmptyDict
    /\ enchantments = <<>>
    /\ next_index = 1
    /\ enchantments_list = <<>>
    /\ output = NotWritten
    /\ IdleResolve /\ IdleTrades /\ IdleTranslate

\* lang_data = load_language_file(jar_path)
LoadLanguage ==
    /\ pc = "load_language"
    /\ lang_data' = load_language_file(jar)
    /\ pc' = "get_all"
    /\ UNCHANGED <<jar, resolveVars, tradeVars, translateVars, mainVars>>

\* enchantments = get_all_enchantments(jar_path)
GetAllEnchantments ==
    /\ pc = "get_all"
    /\ enchantments' = get_all_enchantments(namelist)
    /\ pc' = "loop"
    /\ UNCHANGED <<jar, lang_data, namelist, next_index, enchantments_list, output,
                   resolveVars, tradeVars, translateVars>>

\* One turn of the loop; an exception of extract_enchantment_data ends the run.
ProcessEnchantment ==
    /\ pc = "loop"
    /\ next_index <= Len(enchantments)
    /\ LET enchant_data == extract_enchantment_data(jar, enchantments[next_index], lang_data)
       IN  IF enchant_data.status = "raised"
           THEN /\ pc' = "crashed"
                /\ UNCHANGED <<next_index, enchantments_list>>
           ELSE /\ enchantments_list' = Append(enchantments_list, enchant_data.value)
                /\ next_index' = next_index + 1
                /\ pc' = pc
    /\ UNCHANGED <<jar, lang_data, namelist, enchantments, output,
                   resolveVars, tradeVars, translateVars>>

\* json.dump(enchantments_list, f)
WriteOutput ==
    /\ pc = "loop"
    /\ next_index > Len(enchantments)
    /\ output' = [written |-> TRUE, records |-> enchantments_list]
    /\ pc' = "done"
    /\ UNCHANGED <<jar, lang_data, namelist, enchantments, next_index, enchantments_list,
                   resolveVars, tradeVars, translateVars>>

Next == LoadLanguage \/ GetAllEnchantments \/ ProcessEnchantment \/ WriteOutput

Spec == Init /\ [][Next]_vars

(***************************************************************************)
(* The tag graph of the archive, for stating the resolver properties.      *)
(***************************************************************************)
AllTagRefs == { RefA, RefAShort, RefB }

TagPathOf(root, ref) ==
    IF root = "item"
    THEN item_tag_path(tag_namespace(Tail(ref)), tag_path_part(Tail(ref)))
    ELSE enchantment_tag_path(tag_namespace(Tail(ref)), tag_path_part(Tail(ref)))

\* The tag document a reference names can be loaded (is a non-empty object).
Loadable(root, ref) ==
    /\ startswith_hash(ref)
    /\ TagPathOf(root, ref) \in DOMAIN jar
    /\ jar[TagPathOf(root, ref)].parse = "ok"
    /\ DOMAIN jar[TagPathOf(root, ref)].json # {}

ValuesAt(root, ref) ==
    IF Loadable(root, ref) THEN Get(jar[TagPathOf(root, ref)].json, "values", <<>>) ELSE <<>>

\* The identifier an entry carries: the string itself, or the id of a structured entry.
ValueRef(value) == IF value.type = "str" THEN value.v ELSE Get(value.v, "id", <<>>)

NestedRefs(root, ref) ==
    { r \in AllTagRefs : \E i \in 1..Len(ValuesAt(root, ref)) : ValueRef(ValuesAt(root, ref)[i]) = r }

RECURSIVE ReachN(_, _, _)
ReachN(root, S, n) ==
    IF n = 0 THEN S
    ELSE ReachN(root, S \cup UNION { NestedRefs(root, r) : r \in S }, n - 1)

\* References reached from ref in one or more steps.
ReachFrom(root, ref) == ReachN(root, NestedRefs(root, ref), Cardinality(AllTagRefs))

OnCycle(root, ref) ==
    /\ startswith_hash(ref)
    /\ \E r \in ReachFrom(root, ref) : TagPathOf(root, r) = TagPathOf(root, ref)

Acyclic(root, ref) ==
    /\ ~OnCycle(root, ref)
    /\ \A r \in ReachFrom(root, ref) : ~OnCycle(root, r)

Outcome(root) == IF root = "item" THEN resolved_items ELSE resolved_enchantments

Resolve(root, ref) ==
    IF root = "item" THEN resolve_item_tag(jar, ref, 1) ELSE resolve_enchantment_tag(jar, ref, 1)

Roots == { "item", "enchantment" }

\* C1: a top-level resolver call on a reference that lies on a cycle of tag
\* documents terminates and returns a (finite) list.
C1_CycleSafety ==
    \A root \in Roots :
        (Outcome(root).status # "none" /\ OnCycle(root, tag)) => Outcome(root).status = "returned"

(***************************************************************************)
(* What one entry of a tag document contributes to the resolution of the   *)
(* document: a concrete id contributes itself, a TagReference contributes  *)
(* its own resolution.                                                     *)
(***************************************************************************)
Contribution(root, value) ==
    IF startswith_hash(ValueRef(value)) THEN Resolve(root, ValueRef(value)).value
    ELSE <<ValueRef(value)>>

RECURSIVE ConcatContributions(_, _)
ConcatContributions(root, values) ==
    IF values = <<>> THEN <<>>
    ELSE Contribution(root, Head(values)) \o ConcatContributions(root, Tail(values))

\* The entries the claim is about: literal ids and TagReferences, and in the
\* item domain structured entries too.
PlainEntries(root, values) ==
    \A i \in 1..Len(values) : values[i].type = "str" \/ root = "item"

Unloadable(root, ref) == startswith_hash(ref) /\ ~Loadable(root, ref)

RECURSIVE PrefixLen(_, _, _)
PrefixLen(root, values, n) ==
    IF n = 0 THEN 0
    ELSE PrefixLen(root, values, n - 1) + Len(Contribution(root, values[n]))

Mirrored ==
    /\ (ItemPathA \in DOMAIN jar) = (EnchPathA \in DOMAIN jar)
    /\ (ItemPathB \in DOMAIN jar) = (EnchPathB \in DOMAIN jar)
    /\ ItemPathA \in DOMAIN jar => jar[ItemPathA] = jar[EnchPathA]
    /\ ItemPathB \in DOMAIN jar => jar[ItemPathB] = jar[EnchPathB]

\* C7: with the same tag documents under both roots, the item resolver and the
\* enchantment resolver return the same list for the same reference,
\* structured entries included.
C7_DomainOnlyChangesRoot ==
    (Mirrored /\ resolved_items.status = "returned" /\ resolved_enchantments.status = "returned")
        => resolved_items.value = resolved_enchantments.value

\* A concrete NamespacedID: a string whose first character is not '#'.
IsConcrete(x) == x = <<>> \/ x[1] # "#"

\* C11: a concrete NamespacedID x (no leading '#') resolves, in the item
\* domain and in the enchantment domain, to exactly [x], whatever the archive
\* holds: a tag document at the namespace and path of x is not read into
\* the result and nothing is expanded.
C11_ConcreteIdentity ==
    IsConcrete(tag) =>
        /\ resolved_items.status # "none" => resolved_items = Returned(<<tag>>)
        /\ resolved_enchantments.status # "none" => resolved_enchantments = Returned(<<tag>>)

\* 'minecraft:a' resolved in both domains while tags/item/a.json and
\* tags/enchantment/a.json are loadable tag documents with values of their own.
C11_Witness ==
    /\ tag = ConcreteA
    /\ IsConcrete(tag)
    /\ Loadable("item", RefA) /\ ValuesAt("item", RefA) # <<>>
    /\ Loadable("enchantment", RefA) /\ ValuesAt("enchantment", RefA) # <<>>
    /\ resolved_items = Returned(<<ConcreteA>>)
    /\ resolved_enchantments = Returned(<<ConcreteA>>)

(***************************************************************************)
(* Librarian trades.                                                       *)
(***************************************************************************)
GeneralPair == [biome |-> "any", rarity |-> "general"]

\* The document at path can be loaded and minecraft:{id} is one of its literal
\* values or lies in the enchantment-domain resolution of one of its
\* TagReference values.
MemberOf(id, path) ==
    /\ path \in DOMAIN jar
    /\ jar[path].parse = "ok"
    /\ DOMAIN jar[path].json # {}
    /\ LET values == Get(jar[path].json, "values", <<>>)
       IN  \E i \in 1..Len(values) :
               /\ values[i].type = "str"
               /\ \/ values[i].v = target_of(id)
                  \/ /\ startswith_hash(values[i].v)
                     /\ Resolve("enchantment", values[i].v).status = "returned"
                     /\ target_of(id) \in Range(Resolve("enchantment", values[i].v).value)

BiomeMember(id, b, r) == MemberOf(id, trade_tag_path(biomes[b], trade_types[r]))

SomeBiomeMember(id) ==
    \E b \in 1..Len(biomes), r \in 1..Len(trade_types) : BiomeMember(id, b, r)

\* C5: the pair (any, general) appears only as the only pair of a result; an
\* enchantment that is in a biome trade tag and in the tradeable tag gets its
\* biome pairs and no (any, general) pair.
C5_TradeOrdering ==
    trade_result.status = "returned" =>
        LET pairs == trade_result.value.biome_trades
        IN  /\ GeneralPair \in Range(pairs) => pairs = <<GeneralPair>>
            /\ (SomeBiomeMember(trade_arg) /\ MemberOf(trade_arg, tradeable_path))
                  => (pairs # <<>> /\ GeneralPair \notin Range(pairs))

\* In a biome tag and in the tradeable tag: only the biome pair is returned.
C5_Witness ==
    /\ trade_result.status = "returned"
    /\ SomeBiomeMember(trade_arg)
    /\ MemberOf(trade_arg, tradeable_path)
    /\ Len(trade_result.value.biome_trades) = 1
    /\ trade_result.value.biome_trades[1].rarity # "general"

IsBiomePair(pair) == pair # GeneralPair

\* The pairs of the biomes from b on, rarities from r on, whose tag holds the id.
RECURSIVE ExpectedPairs(_, _, _)
ExpectedPairs(id, b, r) ==
    IF b > Len(biomes) THEN <<>>
    ELSE IF r > Len(trade_types) THEN ExpectedPairs(id, b + 1, 1)
    ELSE (IF BiomeMember(id, b, r)
          THEN <<[biome |-> biomes[b], rarity |-> trade_types[r]]>>
          ELSE <<>>) \o ExpectedPairs(id, b, r + 1)

\* C8: the biome-specific pairs of a result are exactly the (biome, rarity)
\* pairs whose trade tag holds minecraft:{id}, directly or through nested
\* enchantment tags, in biome-major, rarity-minor order.
C8_BiomePairsExact ==
    trade_result.status = "returned" =>
        SelectSeq(trade_result.value.biome_trades, IsBiomePair) = ExpectedPairs(trade_arg, 1, 1)

\* Two biome tags match, the later one through tag a and tag b.
C8_Witness ==
    /\ trade_result.status = "returned"
    /\ trade_result.value.biome_trades
          = << [biome |-> "desert", rarity |-> "special"], [biome |-> "jungle", rarity |-> "common"] >>
    /\ trade_tag_path("jungle", "common") \in DOMAIN jar
    /\ jar[trade_tag_path("jungle", "common")]
          = RawEntry(Doc(<<DictV([id |-> LitP]), StrV(RefAShort)>>))
    /\ EnchPathB \in DOMAIN jar

(***************************************************************************)
(* Translation.                                                            *)
(***************************************************************************)
HasTranslate(d) == d.type = "dict" /\ "translate" \in DOMAIN d.v

\* C10: a literal string comes back unchanged; a descriptor with a translate
\* key gives the table's value when the key is in the table and the raw key
\* otherwise.
C10_TranslationLookup ==
    description.status = "returned" =>
        /\ translation_arg.type = "str" => description.value = translation_arg.v
        /\ HasTranslate(translation_arg) =>
              description.value = IF translation_arg.v.translate \in DOMAIN lang_data
                                  THEN lang_data[translation_arg.v.translate]
                                  ELSE translation_arg.v.translate

\* C10 as amended: the table is looked up for a non-empty key only; the empty
\* key comes back as itself whatever the table holds.
C10_TranslationLookupNonEmptyKey ==
    description.status = "returned" =>
        /\ translation_arg.type = "str" => description.value = translation_arg.v
        /\ HasTranslate(translation_arg) =>
              description.value = IF /\ translation_arg.v.translate # <<>>
                                     /\ translation_arg.v.translate \in DOMAIN lang_data
                                  THEN lang_data[translation_arg.v.translate]
                                  ELSE translation_arg.v.translate

\* A key of the table is replaced by the table's text.
C10_Witness ==
    /\ description = Returned(TextDamage)
    /\ translation_arg = DictV([translate |-> KeyDesc])
    /\ KeyDesc \in DOMAIN lang_data

(***************************************************************************)
(* The output of main.                                                     *)
(***************************************************************************)
\* The definition document of an enumerated name can be loaded.
LoadableDefinition(name) ==
    /\ enchantment_path(name) \in DOMAIN jar
    /\ jar[enchantment_path(name)].parse = "ok"
    /\ DOMAIN jar[enchantment_path(name)].json # {}

HasName(r) == "name" \in DOMAIN r

\* C2: a name whose definition cannot be loaded contributes no element to the
\* output, every other name contributes its record, and so every element of
\* the output has a name.
C2_UnloadableDropped ==
    output.written =>
        /\ \A i \in 1..Len(output.records) : HasName(output.records[i])
        /\ Len(output.records)
              = Cardinality({ i \in 1..Len(enchantments) : LoadableDefinition(enchantments[i]) })

\* C6: in every record the aggregator produced, librarian_biomes is non-empty
\* exactly when tradeable is true.
C6_BiomesIffTradeable ==
    \A i \in 1..Len(enchantments_list) :
        HasName(enchantments_list[i]) =>
            (enchantments_list[i].librarian_biomes # <<>>) = enchantments_list[i].tradeable

\* A record made tradeable by the general tag alone, next to one that is not tradeable.
C6_Witness ==
    /\ output.written
    /\ \E i, k \in 1..Len(output.records) :
          /\ HasName(output.records[i]) /\ HasName(output.records[k])
          /\ output.records[i].tradeable
          /\ output.records[i].librarian_biomes = <<"any">>
          /\ ~output.records[k].tradeable
          /\ output.records[k].librarian_biomes = <<>>

\* C9: the emitted records are in strictly ascending order of name (sorted,
\* each name once) and their names are the enumerated names whose definition
\* loads, whatever the order of the archive's entries.
C9_SortedEachOnce ==
    output.written =>
        LET named == SelectSeq(output.records, HasName)
        IN  /\ \A i \in 1..Len(named) : \A k \in (i + 1)..Len(named) :
                   str_le(named[i].name, named[k].name) /\ named[i].name # named[k].name
            /\ { named[i].name : i \in 1..Len(named) }
                  = { n \in Range(enchantments) : LoadableDefinition(n) }

====
